---- MODULE Spec2Model ----
(***************************************************************************)
(* Model of the CloudInterview KV upload pipeline (src/upload_to_kv.py):   *)
(* the row normalizer parse_csv_row, the filter should_process_problem,    *)
(* the essentials builder create_essentials_entry, the per-entry writer    *)
(* CloudflareKVUploader.put_bulk / put, the driver upload_file_to_kv and   *)
(* the summary printed by main.                                            *)
(*                                                                         *)
(* Texts are sequences of one-character strings, so that strip, split and  *)
(* int() are computed character by character as Python computes them.      *)
(* The Python value None of a text field (what csv.DictReader yields for a *)
(* column missing from a short row) is the one-element sequence NoneStr.   *)
(***************************************************************************)
EXTENDS Integers, Sequences, FiniteSets, TLC

\* ------------------------------------------------------------------ texts

NoneStr == <<"None">>

Whitespace == {" "}

Digits == {"0", "1", "2", "3", "4", "5", "6", "7", "8", "9"}

DigitVal(c) ==
  CASE c = "0" -> 0 [] c = "1" -> 1 [] c = "2" -> 2 [] c = "3" -> 3
    [] c = "4" -> 4 [] c = "5" -> 5 [] c = "6" -> 6 [] c = "7" -> 7
    [] c = "8" -> 8 [] c = "9" -> 9

RECURSIVE lstrip(_, _)
lstrip(s, chars) ==
  IF s = <<>> THEN s
  ELSE IF Head(s) \in chars THEN lstrip(Tail(s), chars) ELSE s

RECURSIVE rstrip(_, _)
rstrip(s, chars) ==
  IF s = <<>> THEN s
  ELSE IF s[Len(s)] \in chars THEN rstrip(SubSeq(s, 1, Len(s) - 1), chars) ELSE s

\* str.strip(chars)
strip_chars(s, chars) == rstrip(lstrip(s, chars), chars)

\* str.strip()
strip(s) == strip_chars(s, Whitespace)

\* str.split(sep) for a one-character separator: always at least one piece
RECURSIVE split(_, _)
split(s, sep) ==
  IF \A i \in 1..Len(s) : s[i] # sep THEN <<s>>
  ELSE LET i == CHOOSE k \in 1..Len(s) :
                  s[k] = sep /\ \A j \in 1..(k - 1) : s[j] # sep
       IN <<SubSeq(s, 1, i - 1)>> \o split(SubSeq(s, i + 1, Len(s)), sep)

\* str.replace(c, '') for a one-character c
RECURSIVE remove_char(_, _)
remove_char(s, c) ==
  IF s = <<>> THEN s
  ELSE IF Head(s) = c THEN remove_char(Tail(s), c)
       ELSE <<Head(s)>> \o remove_char(Tail(s), c)

AllDigits(s) == s # <<>> /\ \A i \in 1..Len(s) : s[i] \in Digits

RECURSIVE DigitsValue(_)
DigitsValue(s) ==
  IF s = <<>> THEN 0
  ELSE 10 * DigitsValue(SubSeq(s, 1, Len(s) - 1)) + DigitVal(s[Len(s)])

\* int(text) succeeds: surrounding whitespace, an optional sign, then digits.
\* (Python also allows single underscores between digits; "_" is not in the
\* alphabet of the texts enumerated here.)
int_ok(text) ==
  LET s == strip(text) IN
    /\ s # <<>>
    /\ IF Head(s) \in {"+", "-"} THEN AllDigits(Tail(s)) ELSE AllDigits(s)

\* int(text), where int_ok(text)
int_value(text) ==
  LET s == strip(text) IN
    IF Head(s) = "-" THEN 0 - DigitsValue(Tail(s))
    ELSE IF Head(s) = "+" THEN DigitsValue(Tail(s))
    ELSE DigitsValue(s)

\* ----------------------------------------------------------- filter policy

\* the policy with the single id 1262 widened to a range
should_process_from_1262(problem_id) == problem_id >= 1262

should_process_problem(problem_id) ==
  IF problem_id = 1262 THEN TRUE
  ELSE IF problem_id >= 1931 THEN TRUE
  ELSE FALSE

\* ------------------------------------------------------- record normalizer

\* Python's None as the result of a parser or as an absent acceptance rate
None == [none |-> TRUE]

\* row.get(key, default)
Get(row, key, default) == IF key \in DOMAIN row THEN row[key] ELSE default

\* the keys whose value parse_csv_row strips: .strip() on None raises
\* AttributeError, which the handler of lines 242-244 turns into None
StrippedKeys ==
  {"frontendQuestionId", "topics", "hints", "similar_questions",
   "acceptance_rate", "likes", "dislikes", "difficulty", "title",
   "titleSlug", "url", "description", "category"}

RaisesOnStrip(row) == \E k \in StrippedKeys : k \in DOMAIN row /\ row[k] = NoneStr

\* [x.strip().strip('"') for x in text.strip('[]').split(',') if x.strip()]
parse_list(text) ==
  LET pieces == split(strip_chars(text, {"[", "]"}), ",")
      kept   == SelectSeq(pieces, LAMBDA x : strip(x) # <<>>)
  IN [i \in 1..Len(kept) |-> strip_chars(strip(kept[i]), {"\""})]

list_field(row, key) ==
  LET text == strip(Get(row, key, <<>>)) IN
    IF text # <<>> THEN parse_list(text) ELSE <<>>

\* float(text) succeeds: whitespace, optional sign, digits with an optional
\* point ("45", "45.5", "45.", ".5").  Exponents, inf and nan need letters
\* that are not in the alphabet of the texts enumerated here.
float_ok(text) ==
  LET s    == strip(text)
      body == IF s # <<>> /\ Head(s) \in {"+", "-"} THEN Tail(s) ELSE s
      parts == split(body, ".")
  IN /\ body # <<>>
     /\ Len(parts) <= 2
     /\ \A i \in 1..Len(parts) : parts[i] = <<>> \/ AllDigits(parts[i])
     /\ \E i \in 1..Len(parts) : parts[i] # <<>>

RECURSIVE drop_trailing_zeros(_)
drop_trailing_zeros(s) ==
  IF s # <<>> /\ s[Len(s)] = "0" THEN drop_trailing_zeros(SubSeq(s, 1, Len(s) - 1))
  ELSE s

\* float(text), where float_ok(text), as the decimal num / 10^scale
float_value(text) ==
  LET s     == strip(text)
      neg   == Head(s) = "-"
      body  == IF Head(s) \in {"+", "-"} THEN Tail(s) ELSE s
      parts == split(body, ".")
      frac  == IF Len(parts) = 2 THEN drop_trailing_zeros(parts[2]) ELSE <<>>
      mag   == DigitsValue(parts[1] \o frac)
  IN [num |-> IF neg THEN 0 - mag ELSE mag, scale |-> Len(frac)]

acceptance_rate_field(row) ==
  LET text == strip(Get(row, "acceptance_rate", <<>>)) IN
    IF text # <<>> /\ float_ok(remove_char(text, "%"))
    THEN float_value(remove_char(text, "%"))
    ELSE None

\* int(row.get(key, '0').strip()) if row.get(key, '').strip() else 0,
\* 0 when int() raises ValueError
count_field(row, key) ==
  IF strip(Get(row, key, <<>>)) # <<>> /\ int_ok(Get(row, key, <<"0">>))
  THEN int_value(Get(row, key, <<"0">>))
  ELSE 0

SolutionKeys == {"solution_code_python", "solution_code_java", "solution_code_cpp"}

RecognizedKeys ==
  {"difficulty", "frontendQuestionId", "paidOnly", "title", "titleSlug", "url",
   "description_url", "description", "solution_url", "solution",
   "solution_code_python", "solution_code_java", "solution_code_cpp",
   "solution_code_url", "category", "acceptance_rate", "topics",
   "hints", "likes", "dislikes", "similar_questions", "stats"}

solution_codes(row) ==
  [k \in {c \in SolutionKeys \cap DOMAIN row : row[c] # NoneStr /\ row[c] # <<>>}
     |-> row[k]]

other_metadata(row) ==
  [k \in {c \in DOMAIN row \ RecognizedKeys :
            row[c] # NoneStr /\ strip(row[c]) # <<>>} |-> strip(row[k])]

\* the metadata with topics and hints left out when they are empty
build_metadata_sparse(row) ==
  LET similar_questions == list_field(row, "similar_questions")
      base == [category        |-> strip(Get(row, "category", <<>>)),
               acceptance_rate |-> acceptance_rate_field(row),
               likes           |-> count_field(row, "likes"),
               dislikes        |-> count_field(row, "dislikes")]
  IN other_metadata(row)
       @@ (IF similar_questions # <<>>
           THEN ("similar_questions" :> similar_questions) ELSE <<>>)
       @@ (IF list_field(row, "topics") # <<>>
           THEN ("topics" :> list_field(row, "topics")) ELSE <<>>)
       @@ (IF list_field(row, "hints") # <<>>
           THEN ("hints" :> list_field(row, "hints")) ELSE <<>>)
       @@ base

build_metadata(row) ==
  LET similar_questions == list_field(row, "similar_questions")
      base == [category        |-> strip(Get(row, "category", <<>>)),
               topics          |-> list_field(row, "topics"),
               hints           |-> list_field(row, "hints"),
               acceptance_rate |-> acceptance_rate_field(row),
               likes           |-> count_field(row, "likes"),
               dislikes        |-> count_field(row, "dislikes")]
  IN other_metadata(row)
       @@ (IF similar_questions # <<>>
           THEN ("similar_questions" :> similar_questions) ELSE <<>>)
       @@ base

build_problem(row, problem_id) ==
  solution_codes(row)
    @@ [id          |-> problem_id,
        difficulty  |-> strip(Get(row, "difficulty", <<>>)),
        title       |-> strip(Get(row, "title", <<>>)),
        titleSlug   |-> strip(Get(row, "titleSlug", <<>>)),
        url         |-> strip(Get(row, "url", <<>>)),
        description |-> strip(Get(row, "description", <<>>)),
        metadata    |-> build_metadata(row)]

\* an exception that leaves a try block
Raised(exception) == [raised |-> exception]

IsRaised(outcome) == "raised" \in DOMAIN outcome

\* the normalizer without its call of the filter policy
parse_csv_row_unfiltered(row) ==
  IF Get(row, "frontendQuestionId", <<>>) = NoneStr THEN None
  ELSE LET frontend_question_id == strip(Get(row, "frontendQuestionId", <<>>)) IN
    IF frontend_question_id = <<>> THEN None
    ELSE IF ~int_ok(frontend_question_id) THEN None
    ELSE IF RaisesOnStrip(row) THEN None
    ELSE build_problem(row, int_value(frontend_question_id))

\* the body of the try block of parse_csv_row, lines 141-240: a Problem, None,
\* or the exception that leaves it (.strip() of None raises AttributeError,
\* int() of a text that is no integer raises ValueError)
parse_csv_row_try(row) ==
  IF Get(row, "frontendQuestionId", <<>>) = NoneStr THEN Raised("AttributeError")
  ELSE LET frontend_question_id == strip(Get(row, "frontendQuestionId", <<>>)) IN
    IF frontend_question_id = <<>> THEN None
    ELSE IF ~int_ok(frontend_question_id) THEN Raised("ValueError")
    ELSE IF ~should_process_problem(int_value(frontend_question_id)) THEN None
    ELSE IF RaisesOnStrip(row) THEN Raised("AttributeError")
    ELSE build_problem(row, int_value(frontend_question_id))

\* the normalizer without its except clause
parse_csv_row_uncaught(row) == parse_csv_row_try(row)

\* lines 140-244: except Exception turns every exception into None
parse_csv_row(row) ==
  IF IsRaised(parse_csv_row_try(row)) THEN None ELSE parse_csv_row_try(row)

\* ---------------------------------------------- the structured normalizer

\* the values of a parsed JSON document, each with its Python type
JStr(text) == [type |-> "str", str |-> text]

JInt(n) == [type |-> "int", int |-> n]

\* the float num / 10^scale
JFloat(num, scale) == [type |-> "float", num |-> num, scale |-> scale]

JNull == [type |-> "NoneType"]

JList(items) == [type |-> "list", list |-> items]

\* bool(value)
truthy(value) ==
  CASE value.type = "str" -> value.str # <<>>
    [] value.type = "int" -> value.int # 0
    [] value.type = "float" -> value.num # 0
    [] value.type = "list" -> value.list # <<>>
    [] OTHER -> FALSE

RECURSIVE Pow10(_)
Pow10(n) == IF n = 0 THEN 1 ELSE 10 * Pow10(n - 1)

\* int(value) succeeds: ValueError for a text that is no integer, TypeError
\* for None and for a list
py_int_ok(value) ==
  CASE value.type = "str" -> int_ok(value.str)
    [] value.type = "int" -> TRUE
    [] value.type = "float" -> TRUE
    [] OTHER -> FALSE

\* int(value), where py_int_ok(value): a float is truncated towards zero
py_int(value) ==
  CASE value.type = "str" -> int_value(value.str)
    [] value.type = "int" -> value.int
    [] value.type = "float" ->
         IF value.num >= 0 THEN value.num \div Pow10(value.scale)
         ELSE 0 - ((0 - value.num) \div Pow10(value.scale))

\* the body of the try block of parse_json_problem, lines 252-271
parse_json_problem_try(json_data) ==
  LET question_id == Get(json_data, "questionId", JNull) IN
    IF ~truthy(question_id) THEN None
    ELSE IF ~py_int_ok(question_id)
    THEN Raised(IF question_id.type = "str" THEN "ValueError" ELSE "TypeError")
    ELSE IF ~should_process_problem(py_int(question_id)) THEN None
    ELSE [id          |-> py_int(question_id),
          difficulty  |-> Get(json_data, "difficulty", JStr(<<>>)),
          title       |-> Get(json_data, "title", JStr(<<>>)),
          titleSlug   |-> Get(json_data, "titleSlug", JStr(<<>>)),
          url         |-> Get(json_data, "url", JStr(<<>>)),
          description |-> Get(json_data, "description", JStr(<<>>)),
          metadata    |->
            [topics   |-> Get(json_data, "topics", JList(<<>>)),
             category |-> Get(json_data, "category",
                              JStr(<<"G", "e", "n", "e", "r", "a", "l">>))]]

\* lines 247-275: except Exception turns every exception into None
parse_json_problem(json_data) ==
  IF IsRaised(parse_json_problem_try(json_data)) THEN None
  ELSE parse_json_problem_try(json_data)

\* ------------------------------------------------------ essentials builder

essential_of(problem) ==
  [id         |-> problem.id,
   title      |-> problem.title,
   difficulty |-> problem.difficulty,
   category   |-> IF "metadata" \in DOMAIN problem
                     /\ "category" \in DOMAIN problem.metadata
                  THEN problem.metadata.category ELSE <<>>,
   topics     |-> IF "metadata" \in DOMAIN problem
                     /\ "topics" \in DOMAIN problem.metadata
                  THEN problem.metadata.topics ELSE <<>>]

\* insert x behind every element whose id is not greater: a stable insertion
RECURSIVE insert_by_id(_, _)
insert_by_id(sorted, x) ==
  IF sorted = <<>> THEN <<x>>
  ELSE IF sorted[Len(sorted)].id <= x.id THEN Append(sorted, x)
  ELSE Append(insert_by_id(SubSeq(sorted, 1, Len(sorted) - 1), x),
              sorted[Len(sorted)])

RECURSIVE stable_sort_prefix(_, _)
stable_sort_prefix(seq, n) ==
  IF n = 0 THEN <<>>
  ELSE insert_by_id(stable_sort_prefix(seq, n - 1), seq[n])

\* the builder without its sort
unsorted(essentials) == essentials

\* essentials.sort(key=lambda x: x["id"]): list.sort is stable
sort_by_id(essentials) == stable_sort_prefix(essentials, Len(essentials))

\* the builder with one summary for each id, that of its first Problem
create_essentials_entry_by_id(problems) ==
  LET firsts == SelectSeq([j \in 1..Len(problems) |-> [at |-> j, problem |-> problems[j]]],
                          LAMBDA x : \A q \in 1..(x.at - 1) : problems[q].id # x.problem.id)
      essentials == sort_by_id([j \in 1..Len(firsts) |-> essential_of(firsts[j].problem)])
  IN [problems |-> essentials, count |-> Len(essentials), last_updated |-> None]

create_essentials_entry(problems) ==
  LET essentials == sort_by_id([j \in 1..Len(problems) |-> essential_of(problems[j])])
  IN [problems |-> essentials, count |-> Len(essentials), last_updated |-> None]

\* ------------------------------------------------------------ the uploader

\* json.dumps(obj, ensure_ascii=False, separators=(',', ':')): the document
\* that holds obj
json_dumps(obj) == [json |-> obj]

\* f"problem:{problem['id']}"
problem_key(problem) == "problem:" \o ToString(problem.id)

essentials_key == "essentials"

\* a slice that runs one record into the next batch
batch_slice_overlapping(problems, i, batch_size) ==
  SubSeq(problems, i + 1,
         IF i + batch_size + 1 < Len(problems) THEN i + batch_size + 1 ELSE Len(problems))

\* problems[i:i + batch_size], i counted from 0
batch_slice(problems, i, batch_size) ==
  SubSeq(problems, i + 1,
         IF i + batch_size < Len(problems) THEN i + batch_size ELSE Len(problems))

\* entries keyed by their position in the batch instead of the problem id
make_entries_by_position(batch) ==
  [j \in 1..Len(batch) |->
     [key |-> "problem:" \o ToString(j), value |-> json_dumps(batch[j])]]

\* the entries list built for one batch (lines 369-374)
make_entries(batch) ==
  [j \in 1..Len(batch) |->
     [key |-> problem_key(batch[j]), value |-> json_dumps(batch[j])]]

\* what requests.put can do: answer with a status, raise, or never answer
\* (no timeout argument is passed, so the call then never returns)
Responses == {"200", "201", "500", "exception", "no_answer"}

status_ok(response) == response \in {"200", "201"}

\* a tally whose exception handler forgets the count
tally_without_exceptions(results, response) ==
  IF status_ok(response)
  THEN [results EXCEPT !.success = @ + 1]
  ELSE IF response = "exception" THEN results
  ELSE [results EXCEPT !.failed = @ + 1]

\* results after one entry of put_bulk (lines 97-105)
tally(results, response) ==
  IF status_ok(response)
  THEN [results EXCEPT !.success = @ + 1]
  ELSE [results EXCEPT !.failed = @ + 1]

\* the remote namespace after a PUT of key: the value under key is replaced
\* when the service accepts the write, and nothing changes otherwise
kv_after(store, key, value, response) ==
  IF status_ok(response)
  THEN [k \in DOMAIN store \cup {key} |-> IF k = key THEN value ELSE store[k]]
  ELSE store

\* --------------------------------------------------------------- the inputs

MaxRows == 4

MaxBatchSize == 3

T(str) == CASE str = "" -> <<>>
            [] str = "1262" -> <<"1", "2", "6", "2">>
            [] str = "1931" -> <<"1", "9", "3", "1">>
            [] str = "1500" -> <<"1", "5", "0", "0">>
            [] str = "[\"x\", \"y\"]" -> <<"[", "\"", "x", "\"", ",", " ", "\"", "y", "\"", "]">>
            [] OTHER -> <<str>>

CsvRow(difficulty, id, title, category, topics) ==
  [difficulty |-> difficulty, frontendQuestionId |-> id, title |-> title,
   category |-> category, topics |-> topics]

\* the rows of the input file: two eligible problems, a filtered-out id, a
\* missing id, and a short row, whose missing columns csv.DictReader fills
\* with None
RowSet ==
  {CsvRow(T("E"), T("1262"), T("A"), T("c"), T("[\"x\", \"y\"]")),
   CsvRow(T("M"), T("1931"), T("B"), T("d"), T("")),
   CsvRow(T("E"), T("1500"), T("C"), T("c"), T("")),
   CsvRow(T("E"), T(""), T("D"), T("c"), T("")),
   CsvRow(T("E"), T("1931"), NoneStr, NoneStr, NoneStr)}

FileStates == {"missing", "unreadable", "readable"}

\* str(int(time.time())) at the upload of the essentials
Clock == {"1762000000"}

\* ---------------------------------------------------------------- the state

VARIABLES
  pc,              \* where main is: start, read, put_bulk, essentials, blocked, exited
  file_state,      \* args.csv: missing, unreadable or readable
  batch_size,      \* args.batch_size
  skip_essentials, \* args.skip_essentials
  rows,            \* the rows the reader has yielded so far
  problems,        \* upload_file_to_kv: problems
  processed_count, \* upload_file_to_kv: processed_count
  success_count,   \* upload_file_to_kv: success_count
  failed_count,    \* upload_file_to_kv: failed_count
  i,               \* start of the current batch in problems, from 0
  entries,         \* put_bulk: entries of the current batch
  k,               \* put_bulk: position of the next entry, from 1
  results,         \* put_bulk: results
  batches,         \* the batches formed so far
  writes,          \* the PUT requests sent so far: key, value, answered, ok
  kv,              \* the remote namespace: key -> value
  report,          \* what main logs last: none, success, degraded, fatal
  exit_code,       \* exit status of the process, -1 while it runs
  summary,         \* the counts main logs in its summary: total, success, failed
  probe            \* a function or a command on its own: its input and its result

vars == <<pc, file_state, batch_size, skip_essentials, rows, problems,
          processed_count, success_count, failed_count, i, entries, k,
          results, batches, writes, kv, report, exit_code, summary, probe>>

\* nothing logged yet
NoSummary == [logged |-> FALSE, total |-> 0, success |-> 0, failed |-> 0]

NoProbe == [arg |-> 0, done |-> FALSE, result |-> FALSE]

\* the locals of upload_file_to_kv at its entry, nothing sent, nothing logged
Fresh ==
  /\ rows = <<>>
  /\ problems = <<>>
  /\ processed_count = 0
  /\ success_count = 0
  /\ failed_count = 0
  /\ i = 0
  /\ entries = <<>>
  /\ k = 0
  /\ results = [success |-> 0, failed |-> 0]
  /\ batches = <<>>
  /\ writes = <<>>
  /\ kv = <<>>
  /\ report = "none"
  /\ exit_code = -1
  /\ summary = NoSummary

Init ==
  /\ pc = "start"
  /\ file_state \in FileStates
  /\ batch_size \in 1..MaxBatchSize
  /\ skip_essentials \in BOOLEAN
  /\ probe = NoProbe
  /\ Fresh

\* a verdict that looks at the successes instead of the failures
summary_report_by_success(success, failed) ==
  IF success > 0 THEN "success" ELSE "degraded"

\* main, lines 450-453: the verdict logged after the summary
summary_report(success, failed) == IF failed = 0 THEN "success" ELSE "degraded"

\* upload_file_to_kv returns (success, failed); main logs the summary of lines
\* 439-448 and its verdict, and ends normally
ReturnToMain(success, failed) ==
  /\ success_count' = success
  /\ failed_count' = failed
  /\ summary' = [logged |-> TRUE, total |-> success + failed,
                  success |-> success, failed |-> failed]
  /\ report' = summary_report(success, failed)
  /\ exit_code' = 0
  /\ pc' = "exited"

\* main, lines 428-430
MainFileNotFound ==
  /\ pc = "start"
  /\ file_state = "missing"
  /\ pc' = "exited"
  /\ report' = "fatal"
  /\ exit_code' = 1
  /\ UNCHANGED summary
  /\ UNCHANGED <<probe, file_state, batch_size, skip_essentials, rows, problems,
                 processed_count, success_count, failed_count, i, entries, k,
                 results, batches, writes, kv>>

\* open() raises in upload_file_to_kv; main, lines 455-457
MainFatalError ==
  /\ pc = "start"
  /\ file_state = "unreadable"
  /\ pc' = "exited"
  /\ report' = "fatal"
  /\ exit_code' = 1
  /\ UNCHANGED summary
  /\ UNCHANGED <<probe, file_state, batch_size, skip_essentials, rows, problems,
                 processed_count, success_count, failed_count, i, entries, k,
                 results, batches, writes, kv>>

\* upload_file_to_kv, lines 320-349: the file is opened
OpenFile ==
  /\ pc = "start"
  /\ file_state = "readable"
  /\ pc' = "read"
  /\ UNCHANGED <<probe, file_state, batch_size, skip_essentials, rows, problems,
                 processed_count, success_count, failed_count, i, entries, k,
                 results, batches, writes, kv, report, exit_code, summary>>

\* upload_file_to_kv, lines 350-356: one row of the reader
ReadRow ==
  /\ pc = "read"
  /\ processed_count < MaxRows
  /\ \E row \in RowSet :
       LET problem == parse_csv_row(row) IN
         /\ rows' = Append(rows, row)
         /\ problems' = IF problem # None THEN Append(problems, problem) ELSE problems
  /\ processed_count' = processed_count + 1
  /\ UNCHANGED <<probe, pc, file_state, batch_size, skip_essentials, success_count,
                 failed_count, i, entries, k, results, batches, writes, kv,
                 report, exit_code, summary>>

\* lines 367-376: the batch that starts at start is formed and handed to put_bulk
StartBatch(start) ==
  /\ i' = start
  /\ entries' = make_entries(batch_slice(problems, start, batch_size))
  /\ batches' = Append(batches, batch_slice(problems, start, batch_size))
  /\ k' = 1
  /\ results' = [success |-> 0, failed |-> 0]
  /\ pc' = "put_bulk"

\* a loop that ends one record early
more_batches_off_by_one(start, n) == start + 1 < n

\* a loop over the entries that stops at the first failure
more_entries_until_failure(position, n, response) ==
  position < n /\ status_ok(response)

\* line 92: the loop over the entries goes on whatever the response was
more_entries(position, n, response) == position < n

\* line 367: is there a batch that starts at start
more_batches(start, n) == start < n

\* a driver that goes on without a Problem
always_some_problems(accumulated) == FALSE

\* line 360: if not problems
no_problems(accumulated) == accumulated = <<>>

\* lines 358-367: the reader is exhausted; with no Problem the function
\* returns (0, 0), otherwise the first batch is formed
EndOfInput ==
  /\ pc = "read"
  /\ IF no_problems(problems)
     THEN /\ ReturnToMain(0, 0)
          /\ UNCHANGED <<i, entries, k, results, batches>>
     ELSE IF more_batches(0, Len(problems))
     THEN /\ StartBatch(0)
          /\ UNCHANGED <<success_count, failed_count, report, exit_code, summary>>
     ELSE IF skip_essentials
     THEN /\ ReturnToMain(success_count, failed_count)
          /\ UNCHANGED <<i, entries, k, results, batches>>
     ELSE /\ pc' = "essentials"
          /\ UNCHANGED <<i, entries, k, results, batches, success_count,
                         failed_count, report, exit_code, summary>>
  /\ UNCHANGED <<probe, file_state, batch_size, skip_essentials, rows, problems,
                 processed_count, writes, kv>>

\* a PUT request as the store sees it
Write(key, value, response) ==
  [key |-> key, value |-> value,
   answered |-> response # "no_answer", ok |-> status_ok(response)]

\* put_bulk, lines 92-107, one entry; when it was the last of the batch, lines
\* 377-383 follow: the counts are added, and either the next batch is formed or
\* the problem phase ends.  The outer handler of put_bulk (lines 109-112) is
\* never entered: every statement that can raise is inside the inner try, and
\* the entries built in lines 369-374 always hold 'key' and 'value'.
PutBulkEntry ==
  /\ pc = "put_bulk"
  /\ \E response \in Responses :
       LET entry == entries[k]
           after == tally(results, response)
       IN
         /\ writes' = Append(writes, Write(entry.key, entry.value, response))
         /\ kv' = kv_after(kv, entry.key, entry.value, response)
         /\ IF response = "no_answer"
            THEN /\ pc' = "blocked"
                 /\ UNCHANGED <<success_count, failed_count, i, entries, k,
                                results, batches, report, exit_code, summary>>
            ELSE IF more_entries(k, Len(entries), response)
            THEN /\ k' = k + 1
                 /\ results' = after
                 /\ UNCHANGED <<pc, success_count, failed_count, i, entries,
                                batches, report, exit_code, summary>>
            ELSE IF more_batches(i + batch_size, Len(problems))
            THEN /\ success_count' = success_count + after.success
                 /\ failed_count' = failed_count + after.failed
                 /\ StartBatch(i + batch_size)
                 /\ UNCHANGED <<report, exit_code, summary>>
            ELSE IF skip_essentials
            THEN /\ ReturnToMain(success_count + after.success,
                                 failed_count + after.failed)
                 /\ results' = after
                 /\ UNCHANGED <<i, entries, k, batches>>
            ELSE /\ success_count' = success_count + after.success
                 /\ failed_count' = failed_count + after.failed
                 /\ results' = after
                 /\ pc' = "essentials"
                 /\ UNCHANGED <<i, entries, k, batches, report, exit_code, summary>>
  /\ UNCHANGED <<probe, file_state, batch_size, skip_essentials, rows, problems,
                 processed_count>>

\* lines 385-389: the essentials document, stamped by the caller
essentials_value(now) ==
  json_dumps([create_essentials_entry(problems) EXCEPT !.last_updated = now])

\* the counts left as they were by the essentials write
after_essentials_uncounted(success, failed, response) ==
  [success |-> success, failed |-> failed]

\* lines 391-396: the essentials write is counted with the problem writes
after_essentials(success, failed, response) ==
  IF status_ok(response)
  THEN [success |-> success + 1, failed |-> failed]
  ELSE [success |-> success, failed |-> failed + 1]

\* lines 391-400, put (lines 63-75), then the return to main
PutEssentials ==
  /\ pc = "essentials"
  /\ \E response \in Responses, now \in Clock :
       /\ writes' = Append(writes, Write(essentials_key, essentials_value(now), response))
       /\ kv' = kv_after(kv, essentials_key, essentials_value(now), response)
       /\ IF response = "no_answer"
          THEN /\ pc' = "blocked"
               /\ UNCHANGED <<success_count, failed_count, report, exit_code, summary>>
          ELSE ReturnToMain(
                 after_essentials(success_count, failed_count, response).success,
                 after_essentials(success_count, failed_count, response).failed)
  /\ UNCHANGED <<probe, file_state, batch_size, skip_essentials, rows, problems,
                 processed_count, i, entries, k, results, batches>>

Next ==
  \/ MainFileNotFound
  \/ MainFatalError
  \/ OpenFile
  \/ ReadRow
  \/ EndOfInput
  \/ PutBulkEntry
  \/ PutEssentials

Spec == Init /\ [][Next]_vars

\* ------------------------------------------- the filter policy on its own

MaxProbeId == 1940

ProbeIds == (0 - MaxProbeId)..MaxProbeId

FilterInit ==
  /\ pc = "filter"
  /\ file_state = "readable"
  /\ batch_size = 1
  /\ skip_essentials = FALSE
  /\ probe \in [arg : ProbeIds, done : {FALSE}, result : {FALSE}]
  /\ Fresh

ApplyFilter ==
  /\ pc = "filter"
  /\ ~probe.done
  /\ probe' = [probe EXCEPT !.done = TRUE,
                            !.result = should_process_problem(probe.arg)]
  /\ UNCHANGED <<pc, file_state, batch_size, skip_essentials, rows, problems,
                 processed_count, success_count, failed_count, i, entries, k,
                 results, batches, writes, kv, report, exit_code, summary>>

FilterNext == ApplyFilter

SpecFilter == FilterInit /\ [][FilterNext]_vars

\* ---------------------------------------------- the normalizers on their own

\* a column that the header of the file does not have
Absent == <<"Absent">>

Cell(key, text) == IF text = Absent THEN <<>> ELSE (key :> text)

ProbeRow(id, title, topics, hints, similar, rate, likes, dislikes) ==
  Cell("frontendQuestionId", id) @@ Cell("title", title) @@ Cell("topics", topics)
    @@ Cell("hints", hints) @@ Cell("similar_questions", similar)
    @@ Cell("acceptance_rate", rate) @@ Cell("likes", likes)
    @@ Cell("dislikes", dislikes) @@ [difficulty |-> <<"E">>]

\* "", " ", "x", "1931.0", "1262", " 1931 ", "1930", "999"
IdTexts ==
  {Absent, NoneStr, <<>>, <<" ">>, <<"x">>,
   <<"1", "9", "3", "1", ".", "0">>, <<"1", "2", "6", "2">>,
   <<" ", "1", "9", "3", "1", " ">>, <<"1", "9", "3", "0">>, <<"9", "9", "9">>}

\* ["x", "y"]
ListXY == <<"[", "\"", "x", "\"", ",", " ", "\"", "y", "\"", "]">>

\* ["a,b"]: one element that holds a comma
ListAB == <<"[", "\"", "a", ",", "b", "\"", "]">>

\* "", " ", ["x", "y"], ["a,b"], "[", " [ "x" ] "
TopicsTexts ==
  {Absent, NoneStr, <<>>, <<" ">>, ListXY, ListAB, <<"[">>,
   <<" ", "[", " ", "\"", "x", "\"", " ", "]", " ">>}

HintsTexts == {Absent, NoneStr, <<>>, ListXY, ListAB}

SimilarTexts == {Absent, NoneStr, <<>>, ListXY}

\* "", "45.5%", "x", "4%5", "45.5", "%"
AcceptanceTexts ==
  {Absent, NoneStr, <<>>, <<"4", "5", ".", "5", "%">>, <<"x">>,
   <<"4", "%", "5">>, <<"4", "5", ".", "5">>, <<"%">>}

\* "", "10", "x", "-5", " 7 "
LikesTexts ==
  {Absent, NoneStr, <<>>, <<"1", "0">>, <<"x">>, <<"-", "5">>, <<" ", "7", " ">>}

DislikesTexts == {NoneStr, <<>>, <<"7">>, <<"-", "5">>}

\* rows with every identifier, and rows with an eligible identifier and every
\* combination of the soft fields
ProbeRows ==
  {ProbeRow(id, title, topics, <<>>, <<>>, <<>>, <<>>, <<>>) :
     id \in IdTexts, title \in {<<"A">>, NoneStr}, topics \in {<<>>, ListXY, NoneStr}}
  \cup
  {ProbeRow(<<"1", "2", "6", "2">>, <<"A">>, topics, hints, similar, rate, likes, dislikes) :
     topics \in TopicsTexts, hints \in HintsTexts, similar \in SimilarTexts,
     rate \in AcceptanceTexts, likes \in LikesTexts, dislikes \in DislikesTexts}

JAbsent == [type |-> "absent"]

JCell(key, value) == IF value = JAbsent THEN <<>> ELSE (key :> value)

ProbeObjects ==
  {JCell("questionId", id) @@ JCell("title", title) @@ JCell("topics", topics)
     @@ JCell("category", category) @@ [difficulty |-> difficulty] :
     id \in {JAbsent, JNull, JStr(<<>>), JStr(<<"x">>), JStr(<<"1", "9", "3", "1">>),
             JInt(0), JInt(1262), JInt(1500), JInt(1931), JFloat(19315, 1),
             JList(<<>>)},
     title \in {JAbsent, JNull, JStr(<<"A">>)},
     topics \in {JAbsent, JNull, JList(<<JStr(<<"x">>)>>)},
     category \in {JAbsent, JStr(<<"c">>)},
     difficulty \in {JNull, JStr(<<"E">>)}}

ParseInit ==
  /\ pc = "parse"
  /\ file_state = "readable"
  /\ batch_size = 1
  /\ skip_essentials = FALSE
  /\ \/ probe \in {[fn |-> "parse_csv_row", arg |-> row, done |-> FALSE,
                    result |-> None] : row \in ProbeRows}
     \/ probe \in {[fn |-> "parse_json_problem", arg |-> object, done |-> FALSE,
                    result |-> None] : object \in ProbeObjects}
  /\ Fresh

ApplyParseCsvRow ==
  /\ pc = "parse"
  /\ probe.fn = "parse_csv_row"
  /\ ~probe.done
  /\ probe' = [probe EXCEPT !.done = TRUE, !.result = parse_csv_row(probe.arg)]
  /\ UNCHANGED <<pc, file_state, batch_size, skip_essentials, rows, problems,
                 processed_count, success_count, failed_count, i, entries, k,
                 results, batches, writes, kv, report, exit_code, summary>>

ApplyParseJsonProblem ==
  /\ pc = "parse"
  /\ probe.fn = "parse_json_problem"
  /\ ~probe.done
  /\ probe' = [probe EXCEPT !.done = TRUE, !.result = parse_json_problem(probe.arg)]
  /\ UNCHANGED <<pc, file_state, batch_size, skip_essentials, rows, problems,
                 processed_count, success_count, failed_count, i, entries, k,
                 results, batches, writes, kv, report, exit_code, summary>>

ParseNext == ApplyParseCsvRow \/ ApplyParseJsonProblem

SpecParse == ParseInit /\ [][ParseNext]_vars


\* ------------------------------------------ the reading stage on its own

MaxItems == 2

MaxLines == 2

\* the sequences of at most n elements of set
SeqsUpTo(set, n) == UNION {[1..m -> set] : m \in 0..n}

\* rows of a tabular source
SourceRows ==
  {ProbeRow(id, <<"A">>, <<>>, <<>>, <<>>, <<>>, <<>>, <<>>) :
     id \in {<<"1", "2", "6", "2">>, <<"1", "9", "3", "0">>, <<"9", "9", "9">>}}

\* problem objects of a structured source
SourceObjects ==
  {[questionId |-> id, title |-> JStr(<<"A">>), difficulty |-> JStr(<<"E">>)] :
     id \in {JInt(1262), JInt(1931), JInt(1500)}}

\* what a file holds: a table, a list of problem objects, an object with a
\* "problems" key, or an object without one
Source(extension, shape, items) ==
  [extension |-> extension, shape |-> shape, items |-> items]

Extensions == {"json", "csv"}

\* problems and processed_count after the loop over the parser's results:
\* "if problem" holds for every Problem, a dict that is never empty
Accumulated(parsed) ==
  [problems        |-> SelectSeq(parsed, LAMBDA x : x # None),
   processed_count |-> Len(parsed)]

ReadInit ==
  /\ pc = "open"
  /\ file_state = "readable"
  /\ batch_size = 1
  /\ skip_essentials = FALSE
  /\ \E extension \in Extensions :
       \/ \E items \in SeqsUpTo(SourceRows, MaxItems) :
            probe = [fn |-> "upload_file_to_kv", done |-> FALSE, result |-> None,
                     arg |-> Source(extension, "table", items)]
       \/ \E items \in SeqsUpTo(SourceObjects, MaxItems),
             shape \in {"list", "problems_object", "other_object"} :
            probe = [fn |-> "upload_file_to_kv", done |-> FALSE, result |-> None,
                     arg |-> Source(extension, shape, items)]
  /\ Fresh

\* lines 330-346: json.load, then parse_json_problem for every element.
\* The text of a table is no JSON document (its header line holds the bare
\* word frontendQuestionId), so json.load raises JSONDecodeError, which leaves
\* upload_file_to_kv.
ReadJsonFile ==
  /\ pc = "open"
  /\ probe.fn = "upload_file_to_kv"
  /\ ~probe.done
  /\ probe.arg.extension = "json"
  /\ probe' =
       [probe EXCEPT
          !.done = TRUE,
          !.result =
            IF probe.arg.shape = "table" THEN Raised("JSONDecodeError")
            ELSE IF probe.arg.shape = "other_object"
            THEN [problems |-> <<>>, processed_count |-> 0]
            ELSE Accumulated([j \in 1..Len(probe.arg.items) |->
                                parse_json_problem(probe.arg.items[j])])]
  /\ UNCHANGED <<pc, file_state, batch_size, skip_essentials, rows, problems,
                 processed_count, success_count, failed_count, i, entries, k,
                 results, batches, writes, kv, report, exit_code, summary>>

\* lines 347-356: csv.DictReader, then parse_csv_row for every row.  Over the
\* text of a JSON document the reader takes the first line as the header and
\* yields one row for each further line; no column is named frontendQuestionId
\* (a key of a JSON object is followed by ':'), so every such row is one
\* without an identifier.
ReadCsvFile ==
  /\ pc = "open"
  /\ probe.fn = "upload_file_to_kv"
  /\ ~probe.done
  /\ probe.arg.extension # "json"
  /\ \E lines \in 0..MaxLines :
       probe' =
         [probe EXCEPT
            !.done = TRUE,
            !.result =
              IF probe.arg.shape = "table"
              THEN Accumulated([j \in 1..Len(probe.arg.items) |->
                                  parse_csv_row(probe.arg.items[j])])
              ELSE Accumulated([j \in 1..lines |->
                                  parse_csv_row([difficulty |-> <<"E">>])])]
  /\ UNCHANGED <<pc, file_state, batch_size, skip_essentials, rows, problems,
                 processed_count, success_count, failed_count, i, entries, k,
                 results, batches, writes, kv, report, exit_code, summary>>

ReadNext == ReadJsonFile \/ ReadCsvFile

SpecRead == ReadInit /\ [][ReadNext]_vars

\* ------------------------------------------------------- the full command

MaxSample == 2

\* test_upload.py is run with 20 as its sample size
sample_size == 20

\* rows of the file given to the command: three with an identifier, one without
SampleRows ==
  SourceRows \cup {ProbeRow(<<>>, <<"A">>, <<>>, <<>>, <<>>, <<>>, <<>>, <<>>)}

\* the names that the command looks up in the .env file
CredentialNames == {"CF_ACCOUNT_ID", "CF_API_TOKEN", "CF_NAMESPACE_ID"}

\* how a subprocess started by run_command ends: with an exit status, or not
\* started at all
Outcomes == {"exit_0", "exit_1", "not_started"}

\* run_command, lines 36-45: check=True raises CalledProcessError for a
\* non-zero status, and every exception gives False
run_command(outcome) == outcome = "exit_0"

\* test_upload.test_csv_parsing, lines 24-79: every row of the sample for which
\* parse_csv_row returns None is counted as failed
test_csv_parsing(csv) ==
  LET n      == IF Len(csv) < sample_size THEN Len(csv) ELSE sample_size
      failed == {j \in 1..n : parse_csv_row(csv[j]) = None}
  IN Cardinality(failed) = 0

\* test_upload.main, lines 148-157: the exit status of the validation
validation_outcome(csv) == IF test_csv_parsing(csv) THEN "exit_0" ELSE "exit_1"

\* the configuration with at least one credential
has_some_credential(config) == config # {}

\* line 264: account_id and api_token and namespace_id
has_credentials(config) == CredentialNames \subseteq config

FullInit ==
  /\ pc = "full"
  /\ file_state = "readable"
  /\ batch_size = 1
  /\ skip_essentials = FALSE
  /\ \E prerequisites \in BOOLEAN, csv_exists \in BOOLEAN,
        csv \in SeqsUpTo(SampleRows, MaxSample) :
       probe = [fn |-> "full", prerequisites |-> prerequisites,
                csv_exists |-> csv_exists, csv |-> csv, step |-> "start",
                started |-> <<>>, setup_ok |-> FALSE, validated |-> FALSE,
                validation_ok |-> FALSE, env_file |-> "unread", config |-> {},
                exited |-> FALSE, status |-> 0]
  /\ Fresh

Others ==
  <<pc, file_state, batch_size, skip_essentials, rows, problems,
    processed_count, success_count, failed_count, i, entries, k,
    results, batches, writes, kv, report, exit_code, summary>>

\* sys.exit(status)
Exit(state, status) ==
  [state EXCEPT !.step = "exited", !.exited = TRUE, !.status = status]

\* run_command is entered for the next step
Start(state, step) ==
  [state EXCEPT !.step = step, !.started = Append(@, step)]

\* lines 122-229: the prerequisites, the file, then setup_env.py is started
FullStart ==
  /\ pc = "full"
  /\ probe.step = "start"
  /\ probe' = IF ~probe.prerequisites \/ ~probe.csv_exists THEN Exit(probe, 1)
              ELSE Start(probe, "setup")
  /\ UNCHANGED Others

\* lines 229-235: setup_env.py has ended; test_upload.py is started
SetupEnds ==
  /\ pc = "full"
  /\ probe.step = "setup"
  /\ \E outcome \in Outcomes :
       probe' = IF ~run_command(outcome) THEN Exit(probe, 1)
                ELSE Start([probe EXCEPT !.setup_ok = TRUE], "validation")
  /\ UNCHANGED Others

\* lines 235-281: test_upload.py has ended; the .env file is read and
\* upload_to_kv.py is started when it holds the three credentials
ValidationEnds ==
  /\ pc = "full"
  /\ probe.step = "validation"
  /\ \E outcome \in {validation_outcome(probe.csv), "not_started"},
        env_file \in {"missing", "unreadable", "present"},
        config \in SUBSET CredentialNames :
       LET validated == [probe EXCEPT !.validated = TRUE,
                                      !.validation_ok = run_command(outcome)]
           read == [validated EXCEPT
                      !.env_file = env_file,
                      !.config = IF env_file = "present" THEN config ELSE {}]
       IN probe' =
            IF ~run_command(outcome) THEN Exit(validated, 1)
            ELSE IF env_file # "present" THEN Exit(read, 1)
            ELSE IF has_credentials(read.config) THEN Start(read, "upload")
            ELSE Exit(read, 1)
  /\ UNCHANGED Others

\* lines 267 and 391-395: upload_to_kv.py has ended
UploadEnds ==
  /\ pc = "full"
  /\ probe.step = "upload"
  /\ \E outcome \in Outcomes :
       probe' = Exit(probe, IF run_command(outcome) THEN 0 ELSE 1)
  /\ UNCHANGED Others

FullNext == FullStart \/ SetupEnds \/ ValidationEnds \/ UploadEnds

SpecFull == FullInit /\ [][FullNext]_vars

\* =================================================================== claims

\* C1: for every integer id, should_process_problem(id) is true if and only if
\* id = 1262 or id >= 1931; 1261, 1930 and every other id below 1931 are
\* rejected.
C1_FilterPolicy ==
  probe.done => (probe.result <=> (probe.arg = 1262 \/ probe.arg >= 1931))

\* the filter has rejected 1930, the id just below the open range
C1_Witness == probe.done /\ probe.arg = 1930 /\ ~probe.result

\* the PUT requests for problem keys, in the order they were sent
ProblemWrites == SelectSeq(writes, LAMBDA w : w.key # essentials_key)

\* k: the problem writes that were answered with a failure
FailedProblemWrites ==
  Cardinality({p \in 1..Len(ProblemWrites) :
                 ProblemWrites[p].answered /\ ~ProblemWrites[p].ok})

\* every batch has been handed to put_bulk and put_bulk has returned
ProblemPhaseEnded ==
  \/ pc = "essentials"
  \/ pc = "exited" /\ problems # <<>>

\* C2: when the problem-upload phase of a run over n accumulated Problems ends
\* and k of the per-record writes failed (non-success status or raised fault),
\* successCount = n - k and failedCount = k at the end of that phase, and no
\* failure has aborted the run: it goes on to the essentials or to the summary.
C2_FailuresAreTallied ==
  /\ pc = "essentials" \/ (pc = "exited" /\ problems # <<>> /\ skip_essentials)
       => /\ success_count = Len(problems) - FailedProblemWrites
          /\ failed_count = FailedProblemWrites
  /\ writes # <<>> => report # "fatal" /\ exit_code \in {-1, 0}
  /\ FailedProblemWrites > 0 /\ pc # "blocked"
       => pc \in {"put_bulk", "essentials", "exited"}

\* four Problems, exactly one failed write: 3 and 1
C2_Witness ==
  /\ pc = "essentials"
  /\ Len(problems) = 4
  /\ FailedProblemWrites = 1
  /\ success_count = 3
  /\ failed_count = 1

Occurrences(seq, x) == Cardinality({p \in 1..Len(seq) : seq[p] = x})

ProblemKeys == [j \in 1..Len(problems) |-> problem_key(problems[j])]

AttemptedKeys == [p \in 1..Len(ProblemWrites) |-> ProblemWrites[p].key]

\* C3: the problem keys for which a write is attempted are those of the
\* accumulated Problems, one attempt for each Problem, whatever the outcomes of
\* the other writes; a failed write prevents no attempt of the same or of a
\* later batch.
C3_EveryProblemAttemptedOnce ==
  /\ \A p \in 1..Len(AttemptedKeys) :
       Occurrences(AttemptedKeys, AttemptedKeys[p])
         <= Occurrences(ProblemKeys, AttemptedKeys[p])
  /\ ProblemPhaseEnded =>
       \A j \in 1..Len(ProblemKeys) :
         Occurrences(AttemptedKeys, ProblemKeys[j])
           = Occurrences(ProblemKeys, ProblemKeys[j])

\* the first write of a batch of two failed, and the phase still ended with
\* three attempts for three Problems
C3_Witness ==
  /\ ProblemPhaseEnded
  /\ batch_size = 2
  /\ Len(problems) = 3
  /\ Len(ProblemWrites) = 3
  /\ ~ProblemWrites[1].ok

RECURSIVE Concat(_)
Concat(seqs) == IF seqs = <<>> THEN <<>> ELSE Head(seqs) \o Concat(Tail(seqs))

\* C4: n Problems and a positive batchSize give ceil(n / batchSize) contiguous
\* batches, each of at most batchSize records, only the last possibly smaller,
\* whose concatenation in order is the original sequence.
C4_Batches ==
  /\ \A b \in 1..Len(batches) :
       /\ Len(batches[b]) <= batch_size
       /\ b < Len(batches) => Len(batches[b]) = batch_size
       /\ batches[b] # <<>>
  /\ ProblemPhaseEnded =>
       /\ Len(batches) = (Len(problems) + batch_size - 1) \div batch_size
       /\ Concat(batches) = problems

\* four Problems with batchSize 3: batches of sizes 3 and 1
C4_Witness ==
  /\ ProblemPhaseEnded
  /\ Len(problems) = 4
  /\ batch_size = 3
  /\ Len(batches) = 2
  /\ Len(batches[1]) = 3
  /\ Len(batches[2]) = 1

EssentialsWrites == {p \in 1..Len(writes) : writes[p].key = essentials_key}

\* C5: in a run that does not skip the essentials and has at least one valid
\* Problem, the write to "essentials" is attempted exactly once, after a write
\* was attempted for every Problem, failed or not, and no problem key is
\* written after it.
C5_EssentialsLast ==
  /\ \A p \in EssentialsWrites : p = Len(writes) /\ p = Len(problems) + 1
  /\ pc = "exited" /\ ~skip_essentials /\ problems # <<>>
       => Cardinality(EssentialsWrites) = 1

\* the essentials were written although a problem write had failed
C5_Witness ==
  /\ pc = "exited"
  /\ ~skip_essentials
  /\ Len(problems) >= 2
  /\ FailedProblemWrites >= 1
  /\ EssentialsWrites = {Len(problems) + 1}

SortedById(seq) == \A a, b \in 1..Len(seq) : a < b => seq[a].id <= seq[b].id

\* C6: the problems of the essentials index built by create_essentials_entry
\* are sorted ascending by id, whatever the order of the input Problems.
C6_EssentialsSorted ==
  \A p \in EssentialsWrites :
    /\ SortedById(writes[p].value.json.problems)
    /\ Len(writes[p].value.json.problems) = Len(problems)

\* the Problems came in descending order (1931 before 1262) and the essentials
\* went out as 1262, 1931
C6_Witness ==
  /\ EssentialsWrites # {}
  /\ Len(problems) = 2
  /\ problems[1].id = 1931 /\ problems[2].id = 1262
  /\ \E p \in EssentialsWrites :
       /\ writes[p].value.json.problems[1].id = 1262
       /\ writes[p].value.json.problems[2].id = 1931

\* the run went through upload_file_to_kv and main printed its summary
RunCompleted == pc = "exited" /\ file_state = "readable"

AllWritesOk == \A p \in 1..Len(writes) : writes[p].ok

KeysWritten == {writes[p].key : p \in {q \in 1..Len(writes) : writes[q].ok}}

\* the identifier of the row is an integer text that the filter policy accepts
EligibleId(row) ==
  /\ row.frontendQuestionId # NoneStr
  /\ int_ok(row.frontendQuestionId)
  /\ \/ int_value(row.frontendQuestionId) = 1262
     \/ int_value(row.frontendQuestionId) >= 1931

\* no column that the normalizer strips is null, as in a short row
NoNullColumn(row) ==
  \A c \in DOMAIN row \cap StrippedKeys : row[c] # NoneStr

RowKey(row) == "problem:" \o ToString(int_value(row.frontendQuestionId))

EligiblePositions == {p \in 1..Len(rows) : EligibleId(rows[p])}

AcceptedPositions == {p \in EligiblePositions : NoNullColumn(rows[p])}

SendsWrite == Len(writes') = Len(writes) + 1

\* C8: uploading the same normalized Problem a second time leaves the store as
\* it was after the first upload: the value under "problem:"+id is the same
\* single value, no second key appears and nothing accumulates.
C8_Idempotent ==
  [][SendsWrite =>
       LET w == writes'[Len(writes')] IN
         (/\ w.ok
          /\ \E a \in 1..Len(writes) :
               /\ writes[a].ok
               /\ writes[a].value = w.value
               /\ writes[a].key \in DOMAIN kv
               /\ kv[writes[a].key] = w.value)
           => kv' = kv /\ w.key \in DOMAIN kv /\ kv[w.key] = w.value]_vars

\* the Problem 1262 was uploaded twice with success and the store holds one key
C8_Witness ==
  /\ Len(writes) = 2
  /\ writes[1].ok /\ writes[2].ok
  /\ writes[1].value = writes[2].value
  /\ DOMAIN kv = {"problem:1262"}
  /\ kv["problem:1262"] = writes[1].value

\* a PUT was sent and the store has not answered it
UnansweredWrite == \E p \in 1..Len(writes) : ~writes[p].answered

\* C9: every write is bounded by a timeout: while a write is unanswered the run
\* can still take a step (the timeout, counted as a failure), so it does not
\* hang.
C9_WritesTimeOut ==
  UnansweredWrite /\ pc # "exited" => ENABLED Next

\* C10: an input that yields zero valid Problems is a fatal error: a non-zero
\* exit status and no report of success.
C10_NoProblemsIsFatal ==
  RunCompleted /\ problems = <<>> => exit_code # 0 /\ report = "fatal"

\* C11: when the input yields zero valid Problems, no write at all is attempted
\* against the store in that run, neither a problem key nor "essentials".
C11_NoProblemsNoWrites ==
  /\ problems = <<>> => writes = <<>> /\ DOMAIN kv = {}
  /\ RunCompleted /\ AcceptedPositions = {} => writes = <<>>

\* three rows were read, none gave a Problem, and the run ended without a PUT
C11_Witness ==
  /\ RunCompleted
  /\ Len(rows) = 3
  /\ problems = <<>>
  /\ writes = <<>>

\* C12: the pipeline reports the success status if and only if failedCount is
\* 0 at the end of the run; with failedCount > 0 it reports the degraded
\* completion together with the failure count.
C12_SuccessIffNoFailure ==
  RunCompleted =>
    /\ summary.logged
    /\ summary.failed = failed_count
    /\ summary.success = success_count
    /\ report = "success" <=> failed_count = 0
    /\ failed_count > 0 => report = "degraded"

\* two writes succeeded, one failed: the run ends degraded and logs 1 failure
C12_Witness ==
  /\ RunCompleted
  /\ success_count = 2
  /\ failed_count = 1
  /\ report = "degraded"
  /\ summary.failed = 1

\* ------------------------------------------------- claims on the normalizers

\* parse_csv_row has been applied to the probed row
CsvParsed == pc = "parse" /\ probe.fn = "parse_csv_row" /\ probe.done

\* parse_json_problem has been applied to the probed object
JsonParsed == pc = "parse" /\ probe.fn = "parse_json_problem" /\ probe.done

IdText(row) == Get(row, "frontendQuestionId", <<>>)

\* the identifier is empty, whitespace only, null, or no number at all
UnusableIdentifier(row) ==
  \/ IdText(row) = NoneStr
  \/ strip(IdText(row)) = <<>>
  \/ ~float_ok(IdText(row))

\* C13: for every tabular row whose identifier is empty, whitespace only or
\* does not parse as a number, the normalizer returns None: it returns no
\* Problem and raises nothing.
C13_UnusableIdentifierIsInvalid ==
  CsvParsed /\ UnusableIdentifier(probe.arg) => probe.result = None

\* the identifier "x" gave None
C13_Witness ==
  /\ CsvParsed
  /\ IdText(probe.arg) = <<"x">>
  /\ probe.result = None

\* the identifier is a float text with an integral value, as "1931.0"
IntegralFloatId(row) ==
  /\ IdText(row) # NoneStr
  /\ float_ok(IdText(row))
  /\ ~int_ok(IdText(row))
  /\ float_value(IdText(row)).scale = 0

\* C14: a row whose identifier is a float text with an integral, eligible
\* value (as "1931.0") yields a Problem whose id is that integer.
C14_IntegralFloatAccepted ==
  CsvParsed /\ IntegralFloatId(probe.arg) /\ NoNullColumn(probe.arg)
    /\ should_process_problem(float_value(IdText(probe.arg)).num) =>
      /\ probe.result # None
      /\ probe.result.id = float_value(IdText(probe.arg)).num

SoftKeys ==
  {"topics", "hints", "similar_questions", "likes", "dislikes", "acceptance_rate"}

\* the identifier parses and is eligible, and no column other than the soft
\* fields is null
EligibleOutsideSoftFields(row) ==
  /\ "frontendQuestionId" \in DOMAIN row
  /\ EligibleId(row)
  /\ \A c \in (DOMAIN row \cap StrippedKeys) \ SoftKeys : row[c] # NoneStr

\* C15: a row with an eligible, parsable identifier yields a Problem whatever
\* topics, hints, similar_questions, likes, dislikes and acceptance_rate hold:
\* malformed text, empty text, no key, or the null of a short row.
C15_SoftErrorsKeepRow ==
  CsvParsed /\ EligibleOutsideSoftFields(probe.arg) => probe.result # None

RequiredKeys == {"id", "difficulty", "title", "titleSlug", "url", "description"}

\* C16: every Problem produced by either normalizer has non-null values for
\* id, difficulty, title, titleSlug, url and description.
C16_NoNullRequiredField ==
  /\ CsvParsed /\ probe.result # None =>
       \A f \in RequiredKeys \ {"id"} :
         f \in DOMAIN probe.result /\ probe.result[f] # NoneStr
  /\ JsonParsed /\ probe.result # None =>
       \A f \in RequiredKeys \ {"id"} :
         f \in DOMAIN probe.result /\ probe.result[f] # JNull

\* the text is a bracketed list
BracketedList(text) ==
  /\ text # NoneStr
  /\ Len(strip(text)) >= 2
  /\ Head(strip(text)) = "["
  /\ strip(text)[Len(strip(text))] = "]"

\* the pieces of s between the commas that stand outside double quotes
RECURSIVE split_outside_quotes(_, _, _)
split_outside_quotes(s, quoted, piece) ==
  IF s = <<>> THEN <<piece>>
  ELSE IF Head(s) = "," /\ ~quoted
  THEN <<piece>> \o split_outside_quotes(Tail(s), FALSE, <<>>)
  ELSE split_outside_quotes(Tail(s), IF Head(s) = "\"" THEN ~quoted ELSE quoted,
                            piece \o <<Head(s)>>)

\* the elements of a bracketed list, trimmed and without their quotes
ListElements(text) ==
  LET inner  == SubSeq(strip(text), 2, Len(strip(text)) - 1)
      pieces == split_outside_quotes(inner, FALSE, <<>>)
      kept   == SelectSeq(pieces, LAMBDA x : strip(x) # <<>>)
  IN [n \in 1..Len(kept) |-> strip_chars(strip(kept[n]), {"\""})]

\* C17: in a Problem, each of topics, hints and similar_questions is the
\* sequence of the elements of its list, in source order, each trimmed and
\* without its surrounding quotes.
C17_ListsKeepTheirElements ==
  CsvParsed /\ probe.result # None =>
    \A f \in {"topics", "hints", "similar_questions"} :
      f \in DOMAIN probe.arg /\ BracketedList(probe.arg[f]) =>
        Get(probe.result.metadata, f, <<>>) = ListElements(probe.arg[f])

\* the field is empty, whitespace only, or has no column
EmptyOrUnset(row, f) == f \notin DOMAIN row \/ (row[f] # NoneStr /\ strip(row[f]) = <<>>)

\* C18: for a valid row whose topics or hints is empty or unset, the row is
\* not rejected and the metadata of its Problem holds that field with an
\* empty sequence.
C18_EmptyListsArePresent ==
  \A f \in {"topics", "hints"} :
    /\ CsvParsed /\ "frontendQuestionId" \in DOMAIN probe.arg
         /\ EligibleId(probe.arg) /\ NoNullColumn(probe.arg)
         /\ EmptyOrUnset(probe.arg, f) => probe.result # None
    /\ CsvParsed /\ probe.result # None /\ EmptyOrUnset(probe.arg, f) =>
         /\ f \in DOMAIN probe.result.metadata
         /\ probe.result.metadata[f] = <<>>

\* topics has no column, hints is empty: both are empty sequences in the Problem
C18_Witness ==
  /\ CsvParsed
  /\ "topics" \notin DOMAIN probe.arg
  /\ "hints" \in DOMAIN probe.arg /\ probe.arg.hints = <<>>
  /\ probe.result # None
  /\ probe.result.metadata.topics = <<>>
  /\ probe.result.metadata.hints = <<>>

\* the text without one '%' at its end
TrailingPercentRemoved(text) ==
  IF text # <<>> /\ text[Len(text)] = "%"
  THEN strip(SubSeq(text, 1, Len(text) - 1)) ELSE text

\* the number that the text stands for once a trailing '%' is removed
RateOfText(text) ==
  IF strip(text) # <<>> /\ float_ok(TrailingPercentRemoved(strip(text)))
  THEN float_value(TrailingPercentRemoved(strip(text)))
  ELSE None

\* C19: for a valid row, the acceptance rate is the number obtained by removing
\* a trailing '%' and parsing the rest, and it is absent when the text is empty
\* or does not parse.
C19_AcceptanceRate ==
  CsvParsed /\ probe.result # None =>
    probe.result.metadata.acceptance_rate
      = RateOfText(Get(probe.arg, "acceptance_rate", <<>>))

\* C20: in every Problem of a tabular row, likes and dislikes are non-negative
\* integers: 0 when the text is empty or unparsable, the parsed integer
\* otherwise.
C20_CountsAreNonNegative ==
  CsvParsed /\ probe.result # None =>
    \A f \in {"likes", "dislikes"} :
      /\ probe.result.metadata[f] >= 0
      /\ probe.result.metadata[f] =
           IF int_ok(Get(probe.arg, f, <<>>)) THEN int_value(Get(probe.arg, f, <<>>))
           ELSE 0

\* the identifier is a non-empty integer text
IntegerId(row) ==
  /\ "frontendQuestionId" \in DOMAIN row
  /\ row.frontendQuestionId # NoneStr
  /\ strip(row.frontendQuestionId) # <<>>
  /\ int_ok(row.frontendQuestionId)

\* C21: parse_csv_row returns a Problem whose id equals the identifier for a
\* row whose identifier is a non-empty integer text such as '999', with the
\* other fields empty or well formed.
C21_IntegerIdGivesProblem ==
  CsvParsed /\ IntegerId(probe.arg) /\ NoNullColumn(probe.arg) =>
    /\ probe.result # None
    /\ probe.result.id = int_value(probe.arg.frontendQuestionId)

\* C23: no two Problems of the accumulated sequence share an id, also when
\* several rows of the input carry the same identifier.
C23_AccumulatedIdsAreUnique ==
  \A p, q \in 1..Len(problems) : p # q => problems[p].id # problems[q].id

\* the problem writes that were answered with a success
SucceededProblemWrites ==
  Cardinality({p \in 1..Len(ProblemWrites) : ProblemWrites[p].ok})

\* C25: the counts reported at the end of a run are those of the Problems: the
\* successes reported are the problem writes that succeeded and the failures
\* reported are the problem writes that failed.
C25_ReportCountsProblems ==
  RunCompleted =>
    /\ summary.success = SucceededProblemWrites
    /\ summary.failed = FailedProblemWrites

\* the projection {id, title, difficulty, category, topics} of a Problem
Projection(problem) ==
  [id |-> problem.id, title |-> problem.title, difficulty |-> problem.difficulty,
   category |-> problem.metadata.category, topics |-> problem.metadata.topics]

Projections == [j \in 1..Len(problems) |-> Projection(problems[j])]

\* C26: the index that create_essentials_entry returns for the accumulated
\* Problems has their number as its count, holds exactly their projections
\* {id, title, difficulty, category, topics}, one for each Problem, and has no
\* lastUpdated; the caller stamps it before the write.
C26_EssentialsProjectEveryProblem ==
  /\ create_essentials_entry(problems).count = Len(problems)
  /\ Len(create_essentials_entry(problems).problems) = Len(problems)
  /\ \A j \in 1..Len(problems) :
       Occurrences(create_essentials_entry(problems).problems, Projections[j])
         = Occurrences(Projections, Projections[j])
  /\ create_essentials_entry(problems).last_updated = None
  /\ \A p \in EssentialsWrites :
       /\ writes[p].value.json.problems = create_essentials_entry(problems).problems
       /\ writes[p].value.json.count = Len(problems)
       /\ writes[p].value.json.last_updated \in Clock

\* three Problems, two of them with the same id: the index written has count 3
C26_Witness ==
  /\ EssentialsWrites # {}
  /\ Len(problems) = 3
  /\ problems[1].id = problems[3].id
  /\ problems[2].id # problems[1].id
  /\ \A p \in EssentialsWrites : writes[p].value.json.count = 3

\* C28: a run that accumulates n >= 1 Problems returns counts whose sum is
\* n + 1 when the essentials are written and n when they are skipped, and then
\* no write to "essentials" is attempted; the pair is (0, 0) only when no write
\* was attempted.
C28_ReturnedCounts ==
  RunCompleted =>
    /\ Len(problems) >= 1 /\ ~skip_essentials =>
         summary.success + summary.failed = Len(problems) + 1
    /\ Len(problems) >= 1 /\ skip_essentials =>
         /\ summary.success + summary.failed = Len(problems)
         /\ EssentialsWrites = {}
    /\ summary.success = 0 /\ summary.failed = 0 => writes = <<>>

\* three Problems with the essentials written, one write failed: 3 and 1
C28_Witness ==
  /\ RunCompleted
  /\ ~skip_essentials
  /\ Len(problems) = 3
  /\ summary.success = 3
  /\ summary.failed = 1

\* the value is an integer: an int, the text of one, or a float without a
\* fractional part
IsInteger(value) ==
  CASE value.type = "int" -> TRUE
    [] value.type = "str" -> int_ok(value.str)
    [] value.type = "float" -> value.scale = 0
    [] OTHER -> FALSE

\* questionId is present, is an integer, and the filter policy accepts it
EligibleQuestionId(json_data) ==
  /\ "questionId" \in DOMAIN json_data
  /\ IsInteger(json_data.questionId)
  /\ should_process_problem(py_int(json_data.questionId))

\* C27: parse_json_problem returns a Problem if and only if questionId is
\* present, parses as an integer and is eligible under the filter policy, and
\* then topics and category are the values of the source; every other input
\* gives None, and nothing is raised.
C27_OnlyIdentifierIsMandatory ==
  JsonParsed =>
    /\ ~IsRaised(probe.result)
    /\ probe.result # None <=> EligibleQuestionId(probe.arg)
    /\ probe.result # None =>
         /\ "topics" \in DOMAIN probe.arg =>
              probe.result.metadata.topics = probe.arg.topics
         /\ "category" \in DOMAIN probe.arg =>
              probe.result.metadata.category = probe.arg.category

\* the reading stage of upload_file_to_kv has been applied to the probed source
SourceRead == pc = "open" /\ probe.fn = "upload_file_to_kv" /\ probe.done

\* the Problems that the normalizer for the shape of the source gives
ProblemsByShape(source) ==
  IF source.shape = "table"
  THEN Accumulated([j \in 1..Len(source.items) |-> parse_csv_row(source.items[j])]).problems
  ELSE IF source.shape \in {"list", "problems_object"}
  THEN Accumulated([j \in 1..Len(source.items) |->
                      parse_json_problem(source.items[j])]).problems
  ELSE <<>>

\* C24: the normalizer is chosen from the shape of the source, not from the
\* file name: a list of problem objects or an object with a "problems" key goes
\* through the structured normalizer and a table through the tabular one,
\* whatever the extension of the file is.
C24_NormalizerByShape ==
  SourceRead =>
    /\ ~IsRaised(probe.result)
    /\ Len(probe.result.problems) = Len(ProblemsByShape(probe.arg))
    /\ \A j \in 1..Len(probe.result.problems) :
         probe.result.problems[j].id = ProblemsByShape(probe.arg)[j].id

\* the full command is running or has run
InFull == pc = "full" /\ probe.fn = "full"

\* the row is skipped for a missing or filtered-out identifier
SkippedRow(row) ==
  \/ strip(IdText(row)) = <<>>
  \/ int_ok(IdText(row)) /\ ~should_process_problem(int_value(IdText(row)))

\* C22: rows that are skipped for a missing or filtered-out identifier do not
\* make a stage fail: a file whose rows are Problems or skipped rows passes
\* the validation that gates the upload in the full command.
C22_SkippedRowsPassValidation ==
  InFull /\ probe.validated
    /\ (\A j \in 1..Len(probe.csv) :
          parse_csv_row(probe.csv[j]) # None \/ SkippedRow(probe.csv[j]))
    => validation_outcome(probe.csv) = "exit_0"

IsPrefix(s, t) == Len(s) <= Len(t) /\ \A j \in 1..Len(s) : s[j] = t[j]

\* setup succeeded, validation succeeded and the .env file holds the three
\* credentials
UploadAllowed ==
  /\ probe.setup_ok
  /\ probe.validation_ok
  /\ probe.env_file = "present"
  /\ CredentialNames \subseteq probe.config

\* C29: in the full command the steps start in the order setup, validation,
\* upload; the upload is started only if setup succeeded, validation succeeded
\* and the saved configuration holds all three credentials, and in every other
\* case the command exits with a failure status without starting the upload.
C29_FullCommandOrder ==
  InFull =>
    /\ IsPrefix(probe.started, <<"setup", "validation", "upload">>)
    /\ Len(probe.started) = 3 => UploadAllowed
    /\ probe.exited /\ ~UploadAllowed =>
         /\ probe.status = 1
         /\ Len(probe.started) < 3
    /\ probe.exited /\ UploadAllowed => Len(probe.started) = 3

\* validation passed but the .env file holds two of the three credentials: the
\* command has exited with status 1 after setup and validation only
C29_Witness ==
  /\ InFull
  /\ probe.exited
  /\ probe.validation_ok
  /\ probe.config = {"CF_ACCOUNT_ID", "CF_API_TOKEN"}
  /\ probe.started = <<"setup", "validation">>
  /\ probe.status = 1

====
